---- MODULE Spec2Model ----
(***************************************************************************)
(* Simple daily schedule support of the V0p2 TRV firmware                  *)
(* (Arduino/V0p2_Main/Schedule.cpp), built with UNIT_TESTS and             *)
(* LEARN_BUTTON_AVAILABLE defined.                                         *)
(*                                                                         *)
(* Spec     : every exposed call as one atomic step on the EEPROM slot     *)
(*            bytes, the unit-test override and the WARM-target bias.      *)
(* SpecIrq  : the same calls at the grain of single EEPROM accesses, with  *)
(*            the AVR global interrupt flag and an interrupt handler that  *)
(*            may cut in wherever interrupts are enabled.                  *)
(***************************************************************************)
EXTENDS Integers, Sequences, FiniteSets, TLC

VARIABLES ee, override, wt, last, cpu

vars == <<ee, override, wt, last, cpu>>

(***************************************************************************)
(* Program constants.                                                      *)
(***************************************************************************)
MINS_PER_DAY == 1440
SIMPLE_SCHEDULE_GRANULARITY_MINS == 6
MAX_SIMPLE_SCHEDULES == 2
LEARNED_ON_PERIOD_M == 60
LEARNED_ON_PERIOD_COMFORT_M == 120
EEPROM_UNPROGRAMMED == 255

\* uint8_t and uint_least16_t (16 bits on the AVR target) arithmetic.
U8(x) == x % 256
U16(x) == x % 65536

\* (uint_least16_t)~0
INVALID_TIME == 65535

max(a, b) == IF a > b THEN a ELSE b

MAX_COMPRESSED_MINS_AFTER_MIDNIGHT ==
  U8((MINS_PER_DAY \div SIMPLE_SCHEDULE_GRANULARITY_MINS) - 1)

PREWARM_MINS ==
  U8(max(30, SIMPLE_SCHEDULE_GRANULARITY_MINS + (LEARNED_ON_PERIOD_M \div 2)))

PREPREWARM_MINS == U8(3 * (PREWARM_MINS \div 2))

Slots == 0 .. (MAX_SIMPLE_SCHEDULES - 1)

\* _TEST_schedule_override; _soUT_normal is 0, the value of the zero-initialised static.
Overrides == {"_soUT_normal", "_soUT_off", "_soUT_soon", "_soUT_now"}

\* How isEcoTemperature()/isComfortTemperature() class the current WARM target.
WarmTargets == {"eco", "mid", "comfort"}

(***************************************************************************)
(* Bounds of the model: how many sample inputs the calls are tried with.   *)
(***************************************************************************)
SetSamples == 3
NowSamples == 12
ByteSamples == 2
IrqSamples == 1

\* k values spread evenly over 0 .. n-1.
Spread(k, n) == {(i * n) \div k : i \in 0 .. (k - 1)}

\* Times handed to setSimpleSchedule(): a spread over the day, times around the
\* pre-warm's length and the day's end, and times that are no time of day.
SetMinutes ==
  Spread(SetSamples, MINS_PER_DAY)
    \cup {35, 36, 100, 1330, MINS_PER_DAY - 1, MINS_PER_DAY, INVALID_TIME}

\* Values of the clock, getMinutesSinceMidnightLT(), at a query.
NowMinutes ==
  Spread(NowSamples, MINS_PER_DAY) \cup {10, 100, 1400, 1435, MINS_PER_DAY - 1}

WhichValues == (0 .. MAX_SIMPLE_SCHEDULES) \cup {255}

\* EEPROM content at power-up: any bytes, valid, corrupt or unprogrammed.
InitBytes ==
  Spread(ByteSamples, 256)
    \cup {MAX_COMPRESSED_MINS_AFTER_MIDNIGHT, MAX_COMPRESSED_MINS_AFTER_MIDNIGHT + 1,
          EEPROM_UNPROGRAMMED}

(***************************************************************************)
(* Storage adapter (OTV0P2BASE): wear-minimising update and erase.  Each   *)
(* gives the new EEPROM content and the number of physical write/erase     *)
(* cycles it cost.                                                         *)
(***************************************************************************)
eeprom_read_byte(e, a) == e[a]

eeprom_smart_update_byte(e, a, v) ==
  IF e[a] = v THEN [ee |-> e, writes |-> 0]
  ELSE [ee |-> [e EXCEPT ![a] = v], writes |-> 1]

eeprom_smart_erase_byte(e, a) ==
  IF e[a] = EEPROM_UNPROGRAMMED THEN [ee |-> e, writes |-> 0]
  ELSE [ee |-> [e EXCEPT ![a] = EEPROM_UNPROGRAMMED], writes |-> 1]

(***************************************************************************)
(* Schedule.cpp, as functions of the EEPROM content e, the override ov,    *)
(* the WARM-target class w and the clock mm.                               *)
(***************************************************************************)
onTime(w) ==
  IF LEARNED_ON_PERIOD_M = LEARNED_ON_PERIOD_COMFORT_M THEN U8(LEARNED_ON_PERIOD_M)
  ELSE IF w = "eco" THEN U8(LEARNED_ON_PERIOD_M)
  ELSE IF w = "comfort" THEN U8(LEARNED_ON_PERIOD_COMFORT_M)
  ELSE U8((LEARNED_ON_PERIOD_M + LEARNED_ON_PERIOD_COMFORT_M) \div 2)

\* Lines 101-109: the start time from the stored byte, wound back by the pre-warm.
startTimeOf(startMM) ==
  LET startTime == U16(SIMPLE_SCHEDULE_GRANULARITY_MINS * startMM)
      windBackM == PREWARM_MINS
      wrapped == IF windBackM > startTime THEN U16(startTime + MINS_PER_DAY)
                 ELSE startTime
  IN U16(wrapped - windBackM)

\* getSimpleScheduleOn() were it to take only the unprogrammed byte for "not set".
getSimpleScheduleOn_OnlyUnprogrammedInvalid(e, which) ==
  IF which >= MAX_SIMPLE_SCHEDULES THEN INVALID_TIME
  ELSE LET startMM == eeprom_read_byte(e, which)
       IN IF startMM = EEPROM_UNPROGRAMMED THEN INVALID_TIME
          ELSE startTimeOf(startMM)

getSimpleScheduleOn(e, which) ==
  IF which >= MAX_SIMPLE_SCHEDULES THEN INVALID_TIME
  ELSE LET startMM == eeprom_read_byte(e, which)
       IN IF startMM > MAX_COMPRESSED_MINS_AFTER_MIDNIGHT THEN INVALID_TIME
          ELSE startTimeOf(startMM)

\* getSimpleScheduleOff() were it to leave out the wrap at midnight.
getSimpleScheduleOff_NoWrap(e, which, w) ==
  LET startMins == getSimpleScheduleOn(e, which)
  IN IF startMins = INVALID_TIME THEN INVALID_TIME
     ELSE U16(startMins + PREWARM_MINS + onTime(w))

getSimpleScheduleOff(e, which, w) ==
  LET startMins == getSimpleScheduleOn(e, which)
  IN IF startMins = INVALID_TIME THEN INVALID_TIME
     ELSE LET endTime == U16(startMins + PREWARM_MINS + onTime(w))
          IN IF endTime >= MINS_PER_DAY THEN U16(endTime - MINS_PER_DAY) ELSE endTime

\* setSimpleSchedule() were it to round to the nearest unit instead of down.
setSimpleSchedule_RoundsToNearest(e, startMinutesSinceMidnightLT, which) ==
  IF which >= MAX_SIMPLE_SCHEDULES THEN [ret |-> FALSE, ee |-> e, writes |-> 0]
  ELSE IF startMinutesSinceMidnightLT >= MINS_PER_DAY
       THEN [ret |-> FALSE, ee |-> e, writes |-> 0]
  ELSE LET startMM ==
             U8((startMinutesSinceMidnightLT + (SIMPLE_SCHEDULE_GRANULARITY_MINS \div 2))
                  \div SIMPLE_SCHEDULE_GRANULARITY_MINS)
           upd == eeprom_smart_update_byte(e, which, startMM)
       IN [ret |-> TRUE, ee |-> upd.ee, writes |-> upd.writes]

\* setSimpleSchedule() were it to leave out the check of the time.
setSimpleSchedule_NoTimeCheck(e, startMinutesSinceMidnightLT, which) ==
  IF which >= MAX_SIMPLE_SCHEDULES THEN [ret |-> FALSE, ee |-> e, writes |-> 0]
  ELSE LET startMM == U8(startMinutesSinceMidnightLT \div SIMPLE_SCHEDULE_GRANULARITY_MINS)
           upd == eeprom_smart_update_byte(e, which, startMM)
       IN [ret |-> TRUE, ee |-> upd.ee, writes |-> upd.writes]

\* Gives the return value, the new EEPROM content and the write cycles spent.
setSimpleSchedule(e, startMinutesSinceMidnightLT, which) ==
  IF which >= MAX_SIMPLE_SCHEDULES THEN [ret |-> FALSE, ee |-> e, writes |-> 0]
  ELSE IF startMinutesSinceMidnightLT >= MINS_PER_DAY
       THEN [ret |-> FALSE, ee |-> e, writes |-> 0]
  ELSE LET startMM == U8(startMinutesSinceMidnightLT \div SIMPLE_SCHEDULE_GRANULARITY_MINS)
           upd == eeprom_smart_update_byte(e, which, startMM)
       IN [ret |-> TRUE, ee |-> upd.ee, writes |-> upd.writes]

\* clearSimpleSchedule() were it to zero the byte instead of erasing it.
clearSimpleSchedule_UpdatesToZero(e, which) ==
  IF which >= MAX_SIMPLE_SCHEDULES THEN [ee |-> e, writes |-> 0]
  ELSE eeprom_smart_update_byte(e, which, 0)

clearSimpleSchedule(e, which) ==
  IF which >= MAX_SIMPLE_SCHEDULES THEN [ee |-> e, writes |-> 0]
  ELSE eeprom_smart_erase_byte(e, which)

\* The scan of isAnySimpleScheduleSet() were it to stop after one slot.
scanAnySet_OneSlotOnly(e, which) ==
  /\ which < MAX_SIMPLE_SCHEDULES
  /\ eeprom_read_byte(e, which) <= MAX_COMPRESSED_MINS_AFTER_MIDNIGHT

RECURSIVE scanAnySet(_, _)
scanAnySet(e, which) ==
  IF which >= MAX_SIMPLE_SCHEDULES THEN FALSE
  ELSE IF eeprom_read_byte(e, which) <= MAX_COMPRESSED_MINS_AFTER_MIDNIGHT THEN TRUE
  ELSE scanAnySet(e, which + 1)

isAnySimpleScheduleSet(e, ov) ==
  CASE ov = "_soUT_off" -> FALSE
    [] ov = "_soUT_soon" -> TRUE
    [] ov = "_soUT_now" -> TRUE
    [] OTHER -> scanAnySet(e, 0)

RECURSIVE scanWARMNow(_, _, _, _)
scanWARMNow(e, w, mm, which) ==
  IF which >= MAX_SIMPLE_SCHEDULES THEN FALSE
  ELSE LET s == getSimpleScheduleOn(e, which)
       IN IF mm < s THEN scanWARMNow(e, w, mm, which + 1)
          ELSE LET e0 == getSimpleScheduleOff(e, which, w)
                   e1 == IF e0 < s THEN U16(e0 + MINS_PER_DAY) ELSE e0
               IN IF mm < e1 THEN TRUE ELSE scanWARMNow(e, w, mm, which + 1)

isAnyScheduleOnWARMNow(e, ov, w, now) ==
  CASE ov = "_soUT_off" -> FALSE
    [] ov = "_soUT_soon" -> FALSE
    [] ov = "_soUT_now" -> TRUE
    [] OTHER -> scanWARMNow(e, w, now, 0)

RECURSIVE scanWARMSoon(_, _, _, _)
scanWARMSoon(e, w, mm, which) ==
  IF which >= MAX_SIMPLE_SCHEDULES THEN FALSE
  ELSE LET s == getSimpleScheduleOn(e, which)
       IN IF mm < s THEN scanWARMSoon(e, w, mm, which + 1)
          ELSE LET e0 == getSimpleScheduleOff(e, which, w)
                   e1 == IF e0 < s THEN U16(e0 + MINS_PER_DAY) ELSE e0
               IN IF mm < e1 THEN TRUE ELSE scanWARMSoon(e, w, mm, which + 1)

\* isAnyScheduleOnWARMSoon() were its override switch a copy of isAnyScheduleOnWARMNow()'s.
isAnyScheduleOnWARMSoon_SwitchOfNow(e, ov, w, now) ==
  CASE ov = "_soUT_off" -> FALSE
    [] ov = "_soUT_soon" -> FALSE
    [] ov = "_soUT_now" -> TRUE
    [] OTHER ->
         LET mm0 == U16(now + PREPREWARM_MINS)
             mm == IF mm0 >= MINS_PER_DAY THEN mm0 - MINS_PER_DAY ELSE mm0
         IN scanWARMSoon(e, w, mm, 0)

isAnyScheduleOnWARMSoon(e, ov, w, now) ==
  CASE ov = "_soUT_off" -> FALSE
    [] ov = "_soUT_soon" -> TRUE
    [] ov = "_soUT_now" -> FALSE
    [] OTHER ->
         LET mm0 == U16(now + PREPREWARM_MINS)
             mm == IF mm0 >= MINS_PER_DAY THEN mm0 - MINS_PER_DAY ELSE mm0
         IN scanWARMSoon(e, w, mm, 0)

(***************************************************************************)
(* Spec: the calls as atomic steps.  last records the latest call: its     *)
(* name, arguments and results, the EEPROM content it started from and the *)
(* physical write cycles it spent.                                         *)
(***************************************************************************)
NoCall == [op |-> "none", arg |-> 0, w |-> "none"]

\* What a call on slot which follows directly: a successful set or a clear of the same
\* slot, or a change of the WARM target (with the class it had before).
After(which) ==
  IF last.op = "set" /\ last.retB /\ last.which = which
    THEN [op |-> "set", arg |-> last.arg, w |-> "none"]
  ELSE IF last.op = "clear" /\ last.which = which
    THEN [op |-> "clear", arg |-> 0, w |-> "none"]
  ELSE IF last.op = "target" THEN [op |-> "target", arg |-> 0, w |-> last.after.w]
  ELSE NoCall

\* The same for isAnySimpleScheduleSet(), which takes no slot.
AfterAnySlot ==
  IF last.op = "set" /\ last.retB THEN [op |-> "set", arg |-> last.arg, w |-> "none"]
  ELSE NoCall

Call(op, which, arg, retB, retT, pre, writes, after) ==
  [op |-> op, which |-> which, arg |-> arg, retB |-> retB, retT |-> retT,
   pre |-> pre, writes |-> writes, after |-> after]

\* One execution context of the CPU: the call it is in (op, which, arg), where it is in
\* that call (pc), the interrupt flag at the call's entry, the SREG copy its ATOMIC_BLOCK
\* holds, its result so far and the EEPROM content behind each byte its scan has read.
IdleCtx ==
  [pc |-> "idle", op |-> "none", which |-> 0, arg |-> 0, entry |-> 0, saved |-> 0,
   retB |-> FALSE, retT |-> 0, seen |-> <<>>]

\* The CPU: the global interrupt flag (SREG bit I), the foreground and the interrupt handler.
CpuIdle == [I |-> 1, fg |-> IdleCtx, isr |-> IdleCtx]

Init ==
  /\ ee \in [Slots -> InitBytes]
  /\ override = "_soUT_normal"
  /\ wt \in WarmTargets
  /\ last = Call("init", 0, 0, FALSE, 0, ee, 0, NoCall)
  /\ cpu = CpuIdle

CallGetSimpleScheduleOn ==
  \E which \in WhichValues :
    /\ last' = Call("getOn", which, 0, FALSE, getSimpleScheduleOn(ee, which), ee, 0,
                 After(which))
    /\ UNCHANGED <<ee, override, wt, cpu>>

CallGetSimpleScheduleOff ==
  \E which \in WhichValues :
    /\ last' = Call("getOff", which, 0, FALSE, getSimpleScheduleOff(ee, which, wt), ee, 0,
                 After(which))
    /\ UNCHANGED <<ee, override, wt, cpu>>

CallSetSimpleSchedule ==
  \E m \in SetMinutes, which \in WhichValues :
    LET r == setSimpleSchedule(ee, m, which)
    IN /\ ee' = r.ee
       /\ last' = Call("set", which, m, r.ret, 0, ee, r.writes, NoCall)
       /\ UNCHANGED <<override, wt, cpu>>

CallClearSimpleSchedule ==
  \E which \in WhichValues :
    LET r == clearSimpleSchedule(ee, which)
    IN /\ ee' = r.ee
       /\ last' = Call("clear", which, 0, FALSE, 0, ee, r.writes, After(which))
       /\ UNCHANGED <<override, wt, cpu>>

CallIsAnySimpleScheduleSet ==
  /\ last' = Call("anySet", 0, 0, isAnySimpleScheduleSet(ee, override), 0, ee, 0,
                 AfterAnySlot)
  /\ UNCHANGED <<ee, override, wt, cpu>>

CallIsAnyScheduleOnWARMNow ==
  \E now \in NowMinutes :
    /\ last' = Call("now", 0, now, isAnyScheduleOnWARMNow(ee, override, wt, now),
                    0, ee, 0, NoCall)
    /\ UNCHANGED <<ee, override, wt, cpu>>

CallIsAnyScheduleOnWARMSoon ==
  \E now \in NowMinutes :
    /\ last' = Call("soon", 0, now, isAnyScheduleOnWARMSoon(ee, override, wt, now),
                    0, ee, 0, NoCall)
    /\ UNCHANGED <<ee, override, wt, cpu>>

\* _TEST_set_schedule_override()
TestSetScheduleOverride ==
  \E ov \in Overrides :
    /\ override' = ov
    /\ last' = Call("override", 0, 0, FALSE, 0, ee, 0, NoCall)
    /\ UNCHANGED <<ee, wt, cpu>>

\* The user moves the WARM target (Control.h), which onTime() reads at each call.
WarmTargetChange ==
  \E w \in WarmTargets :
    /\ w # wt
    /\ wt' = w
    /\ last' = Call("target", 0, 0, FALSE, 0, ee, 0,
                    [op |-> "none", arg |-> 0, w |-> wt])
    /\ UNCHANGED <<ee, override, cpu>>

Next ==
  \/ CallGetSimpleScheduleOn
  \/ CallGetSimpleScheduleOff
  \/ CallSetSimpleSchedule
  \/ CallClearSimpleSchedule
  \/ CallIsAnySimpleScheduleSet
  \/ CallIsAnyScheduleOnWARMNow
  \/ CallIsAnyScheduleOnWARMSoon
  \/ TestSetScheduleOverride
  \/ WarmTargetChange

Spec == Init /\ [][Next]_vars

(***************************************************************************)
(* What the interface promises, stated without the code's loops.           *)
(***************************************************************************)
Normal == override = "_soUT_normal"

SlotIsSet(e, k) == e[k] <= MAX_COMPRESSED_MINS_AFTER_MIDNIGHT

\* now lies in the window from on to off, taken circularly across midnight.
InWindow(now, on, off) ==
  IF on <= off THEN on <= now /\ now < off ELSE now >= on \/ now < off

\* Minutes from now forward to t, circularly.
MinutesUntil(now, t) == (t - now) % MINS_PER_DAY

Quantised(m) ==
  (m \div SIMPLE_SCHEDULE_GRANULARITY_MINS) * SIMPLE_SCHEDULE_GRANULARITY_MINS

OnDurations ==
  {LEARNED_ON_PERIOD_M, LEARNED_ON_PERIOD_COMFORT_M,
   (LEARNED_ON_PERIOD_M + LEARNED_ON_PERIOD_COMFORT_M) \div 2}

\* Section 4.3's loop: some slot with s <= mm < e, a day added to e when e < s.
SomeSlotCovers(e, w, mm) ==
  \E k \in Slots :
    LET s == getSimpleScheduleOn(e, k)
        e0 == getSimpleScheduleOff(e, k, w)
    IN /\ s <= mm
       /\ mm < (IF e0 < s THEN e0 + MINS_PER_DAY ELSE e0)

\* C1: with no override, isAnyScheduleOnWARMNow() returns true exactly when the current
\* time lies inside the on-to-off window, taken circularly across midnight, of at least
\* one set slot (so also in the part of a midnight-spanning window after midnight).
C1_ActiveNowIffInsideSomeWindow ==
  (last.op = "now" /\ Normal) =>
    (last.retB <=>
       \E k \in Slots :
         /\ SlotIsSet(ee, k)
         /\ InWindow(last.arg, getSimpleScheduleOn(ee, k),
                     getSimpleScheduleOff(ee, k, wt)))

\* C2: after setSimpleSchedule(m, k) returns true, getSimpleScheduleOn(k) returns the
\* quantised m wound back by the pre-warm, modulo one day (a day is added when the
\* pre-warm exceeds the anchor), a time in [0, MINS_PER_DAY) and never the sentinel.
C2_SetThenGetOnRoundTrip ==
  /\ (last.op = "set" /\ last.retB) =>
       LET on == getSimpleScheduleOn(ee, last.which)
           q == Quantised(last.arg)
       IN /\ last.which \in Slots
          /\ last.arg \in 0 .. (MINS_PER_DAY - 1)
          /\ on = (q - PREWARM_MINS) % MINS_PER_DAY
          /\ on = (IF PREWARM_MINS > q THEN q + MINS_PER_DAY ELSE q) - PREWARM_MINS
          /\ on \in 0 .. (MINS_PER_DAY - 1)
          /\ on # INVALID_TIME
  /\ (last.op = "getOn" /\ last.after.op = "set") =>
       /\ last.retT = (Quantised(last.after.arg) - PREWARM_MINS) % MINS_PER_DAY
       /\ last.retT \in 0 .. (MINS_PER_DAY - 1)

\* A set of 00:35 (anchor 00:30, before the pre-warm's length) read back as 23:54.
C2_Witness ==
  /\ last.op = "getOn" /\ last.after.op = "set"
  /\ last.after.arg = 35
  /\ last.retT = MINS_PER_DAY - 6

\* C3: setSimpleSchedule() returns false, with every slot byte unchanged and no write or
\* erase issued, whenever the slot is >= MAX_SIMPLE_SCHEDULES or the time is >=
\* MINS_PER_DAY; for every other argument pair it returns true.
C3_SetRejectsInvalidArguments ==
  last.op = "set" =>
    /\ last.retB <=> (last.which < MAX_SIMPLE_SCHEDULES /\ last.arg < MINS_PER_DAY)
    /\ ~last.retB => (ee = last.pre /\ last.writes = 0)

\* setSimpleSchedule(100, MAX_SIMPLE_SCHEDULES) refused while a schedule is stored.
C3_Witness ==
  /\ last.op = "set" /\ last.which = MAX_SIMPLE_SCHEDULES /\ last.arg = 100
  /\ ~last.retB
  /\ \E k \in Slots : SlotIsSet(ee, k)

\* C4: getSimpleScheduleOn() and getSimpleScheduleOff() return the invalid sentinel
\* exactly when the slot is >= MAX_SIMPLE_SCHEDULES or its stored byte is greater than
\* MAX_COMPRESSED_MINS_AFTER_MIDNIGHT, otherwise a time in [0, MINS_PER_DAY); neither
\* changes the EEPROM.
C4_GettersFailSoftly ==
  last.op \in {"getOn", "getOff"} =>
    /\ last.retT = INVALID_TIME <=>
         (last.which >= MAX_SIMPLE_SCHEDULES \/ ~SlotIsSet(last.pre, last.which))
    /\ last.retT # INVALID_TIME => last.retT \in 0 .. (MINS_PER_DAY - 1)
    /\ ee = last.pre
    /\ last.writes = 0

\* getSimpleScheduleOff() of a slot holding a byte just past the largest valid one.
C4_Witness ==
  /\ last.op = "getOff" /\ last.which \in Slots
  /\ last.pre[last.which] = MAX_COMPRESSED_MINS_AFTER_MIDNIGHT + 1
  /\ last.retT = INVALID_TIME

\* C5: with no override, isAnySimpleScheduleSet() returns true iff at least one slot
\* byte is <= MAX_COMPRESSED_MINS_AFTER_MIDNIGHT: true straight after a set that
\* returned true, false when every slot is cleared.
C5_AnySetIffSomeSlotByteValid ==
  (last.op = "anySet" /\ Normal) =>
    /\ last.retB <=> (\E k \in Slots : SlotIsSet(ee, k))
    /\ last.after.op = "set" => last.retB
    /\ (\A k \in Slots : ee[k] = EEPROM_UNPROGRAMMED) => ~last.retB

\* True straight after a set of the last slot while the first holds no schedule.
C5_Witness ==
  /\ last.op = "anySet" /\ Normal /\ last.after.op = "set" /\ last.retB
  /\ ~SlotIsSet(ee, 0)
  /\ SlotIsSet(ee, MAX_SIMPLE_SCHEDULES - 1)

\* C6: after clearSimpleSchedule(k), k < MAX_SIMPLE_SCHEDULES, slot k reads as not set
\* (both getters give the sentinel, a store with every slot cleared gives no on or off
\* event) until a set of k succeeds; the other slots' bytes are unchanged; a repeated
\* clear changes nothing and spends no erase cycle; a clear of a slot out of range
\* does nothing.
C6_ClearEffectiveAndIdempotent ==
  /\ (last.op = "clear" /\ last.which \in Slots) =>
       /\ ~SlotIsSet(ee, last.which)
       /\ getSimpleScheduleOn(ee, last.which) = INVALID_TIME
       /\ \A w \in WarmTargets : getSimpleScheduleOff(ee, last.which, w) = INVALID_TIME
       /\ \A j \in Slots \ {last.which} : ee[j] = last.pre[j]
       /\ last.writes = (IF last.pre[last.which] = EEPROM_UNPROGRAMMED THEN 0 ELSE 1)
  /\ (last.op = "clear" /\ last.after.op = "clear") =>
       (ee = last.pre /\ last.writes = 0)
  /\ (last.op = "clear" /\ last.which \notin Slots) =>
       (ee = last.pre /\ last.writes = 0)
  /\ (last.op \in {"getOn", "getOff"} /\ last.after.op = "clear") =>
       last.retT = INVALID_TIME
  /\ \A k \in Slots :
       ee[k] # last.pre[k] =>
         /\ last.which = k
         /\ \/ last.op = "clear"
            \/ last.op = "set" /\ last.retB
  /\ (last.op \in {"now", "soon"} /\ Normal
        /\ \A k \in Slots : ee[k] = EEPROM_UNPROGRAMMED) => ~last.retB

\* A second clear of a slot straight after the clear that erased its schedule.
C6_Witness ==
  /\ last.op = "clear" /\ last.after.op = "clear" /\ last.which \in Slots
  /\ last.writes = 0
  /\ \E j \in Slots : SlotIsSet(ee, j)

\* C7: the override decides the three queries whatever the EEPROM, the WARM target and
\* the clock hold: off gives (false, false, false), soon (true, false, true), now
\* (true, true, false); with no override each query gives the result of the real
\* computation; neither setting the override nor a query changes the EEPROM.
C7_OverridePrecedence ==
  /\ last.op \in {"anySet", "now", "soon"} =>
       /\ override = "_soUT_off" => ~last.retB
       /\ override = "_soUT_soon" => (last.retB <=> last.op \in {"anySet", "soon"})
       /\ override = "_soUT_now" => (last.retB <=> last.op \in {"anySet", "now"})
       /\ (Normal /\ last.op = "anySet") =>
            (last.retB <=> \E k \in Slots : SlotIsSet(ee, k))
       /\ (Normal /\ last.op = "now") =>
            (last.retB <=> SomeSlotCovers(ee, wt, last.arg))
       /\ (Normal /\ last.op = "soon") =>
            (last.retB <=>
               SomeSlotCovers(ee, wt, (last.arg + PREPREWARM_MINS) % MINS_PER_DAY))
       /\ ee = last.pre
  /\ last.op = "override" => ee = last.pre

\* Override now: "starting soon" answered false where the real computation gives true.
C7_Witness ==
  /\ override = "_soUT_now" /\ last.op = "soon" /\ ~last.retB
  /\ isAnyScheduleOnWARMSoon(ee, "_soUT_normal", wt, last.arg)

\* C8: with no override, isAnyScheduleOnWARMSoon() returns true whenever some set
\* slot's on time is reached within the next PREPREWARM_MINS minutes, counted forward
\* circularly, and false when no slot is set.
C8_StartingSoonCoversEveryOnTime ==
  (last.op = "soon" /\ Normal) =>
    /\ (\E k \in Slots :
          /\ SlotIsSet(ee, k)
          /\ MinutesUntil(last.arg, getSimpleScheduleOn(ee, k)) <= PREPREWARM_MINS)
         => last.retB
    /\ (\A k \in Slots : ~SlotIsSet(ee, k)) => ~last.retB

\* C9: for a set slot getSimpleScheduleOff() is (getSimpleScheduleOn() + PREWARM_MINS +
\* on-duration) mod MINS_PER_DAY for the duration onTime() gives at the call, a time in
\* [0, MINS_PER_DAY): the sum is below two days and below the sentinel.  A change of the
\* WARM target changes the next result with no EEPROM write and the on time as it was.
C9_OffTimeDerivedFromOnDuration ==
  (last.op = "getOff" /\ last.which \in Slots /\ SlotIsSet(last.pre, last.which)) =>
    LET on == getSimpleScheduleOn(ee, last.which)
    IN /\ \E d \in OnDurations :
            /\ d = onTime(wt)
            /\ last.retT = (on + PREWARM_MINS + d) % MINS_PER_DAY
            /\ on + PREWARM_MINS + d < 2 * MINS_PER_DAY
            /\ on + PREWARM_MINS + d < INVALID_TIME
       /\ last.retT \in 0 .. (MINS_PER_DAY - 1)
       /\ ee = last.pre /\ last.writes = 0
       /\ last.after.op = "target" =>
            /\ last.after.w # wt
            /\ last.retT # getSimpleScheduleOff(last.pre, last.which, last.after.w)
            /\ getSimpleScheduleOn(last.pre, last.which) = on

\* An off time past midnight, read straight after the WARM target moved.
C9_Witness ==
  /\ last.op = "getOff" /\ last.which \in Slots /\ SlotIsSet(ee, last.which)
  /\ last.after.op = "target"
  /\ last.retT < getSimpleScheduleOn(ee, last.which)

(***************************************************************************)
(* SpecIrq: the calls at the grain of single EEPROM accesses.              *)
(* ATOMIC_BLOCK(ATOMIC_RESTORESTATE) copies SREG, clears I, runs its body  *)
(* and writes the copy back to SREG however the body is left.              *)
(***************************************************************************)
IrqMinutes == Spread(IrqSamples, MINS_PER_DAY) \cup {100, MINS_PER_DAY}
IrqBytes == {0, EEPROM_UNPROGRAMMED}
Contexts == {"fg", "isr"}

\* cli() on entry to the block.
AtomicEnter(I) == 0

\* ATOMIC_FORCEON in place of ATOMIC_RESTORESTATE: interrupts enabled on leaving the block.
AtomicForceOn(saved) == 1

\* __iRestore(): SREG as it was on entry to the block.
AtomicRestore(saved) == saved

\* The handler runs from its entry to its return; the foreground runs when no handler does.
Running(c) ==
  IF c = "isr" THEN cpu.isr.pc # "idle"
  ELSE cpu.isr.pc = "idle" /\ cpu.fg.pc # "idle"

InitIrq ==
  /\ ee \in [Slots -> IrqBytes]
  /\ override = "_soUT_normal"
  /\ wt = "eco"
  /\ last = Call("init", 0, 0, FALSE, 0, ee, 0, NoCall)
  /\ cpu = CpuIdle

\* The caller of the schedule routines disables or enables interrupts between calls.
FgCli ==
  /\ cpu.fg.pc = "idle" /\ cpu.isr.pc = "idle" /\ cpu.I = 1
  /\ cpu' = [cpu EXCEPT !.I = 0]
  /\ UNCHANGED <<ee, override, wt, last>>

FgSei ==
  /\ cpu.fg.pc = "idle" /\ cpu.isr.pc = "idle" /\ cpu.I = 0
  /\ cpu' = [cpu EXCEPT !.I = 1]
  /\ UNCHANGED <<ee, override, wt, last>>

\* The foreground calls one of the routines.
FgCall ==
  /\ cpu.fg.pc = "idle" /\ cpu.isr.pc = "idle"
  /\ \E op \in {"getOn", "set", "clear", "anySet"}, which \in WhichValues,
        m \in IrqMinutes :
       /\ op \in {"getOn", "clear"} => m = 0
       /\ op = "anySet" => (m = 0 /\ which = 0)
       /\ cpu' = [cpu EXCEPT !.fg = [IdleCtx EXCEPT !.pc = "start", !.op = op,
                                      !.which = which, !.arg = m, !.entry = cpu.I]]
  /\ UNCHANGED <<ee, override, wt, last>>

\* An interrupt is taken (the hardware clears I) and its handler calls a reader.
Interrupt ==
  /\ cpu.isr.pc = "idle" /\ cpu.I = 1
  /\ \E op \in {"getOn", "anySet"}, which \in WhichValues :
       /\ op = "anySet" => which = 0
       /\ cpu' = [cpu EXCEPT !.I = 0,
                              !.isr = [IdleCtx EXCEPT !.pc = "start", !.op = op,
                                       !.which = which, !.entry = 0]]
  /\ UNCHANGED <<ee, override, wt, last>>

\* From the call to the first EEPROM access: the argument checks (or the override
\* switch), then the entry to the ATOMIC_BLOCK.
IrqEnter(c) ==
  LET x == cpu[c]
      rejected ==
        CASE x.op = "getOn" -> x.which >= MAX_SIMPLE_SCHEDULES
          [] x.op = "set" -> x.which >= MAX_SIMPLE_SCHEDULES \/ x.arg >= MINS_PER_DAY
          [] x.op = "clear" -> x.which >= MAX_SIMPLE_SCHEDULES
          [] OTHER -> override # "_soUT_normal"
      access ==
        CASE x.op = "getOn" -> "read"
          [] x.op = "anySet" -> "scan"
          [] OTHER -> "write"
  IN /\ Running(c) /\ x.pc = "start"
     /\ IF rejected
          THEN cpu' = [cpu EXCEPT ![c].pc = "ret",
                                  ![c].retT = INVALID_TIME,
                                  ![c].retB = IF x.op = "anySet"
                                              THEN isAnySimpleScheduleSet(ee, override)
                                              ELSE FALSE]
          ELSE cpu' = [cpu EXCEPT !.I = AtomicEnter(cpu.I),
                                  ![c].saved = cpu.I,
                                  ![c].which = IF x.op = "anySet" THEN 0 ELSE x.which,
                                  ![c].pc = access]
     /\ UNCHANGED <<ee, override, wt, last>>

\* getSimpleScheduleOn(): the read of the slot byte.
IrqRead(c) ==
  LET x == cpu[c]
      startMM == eeprom_read_byte(ee, x.which)
  IN /\ Running(c) /\ x.pc = "read"
     /\ cpu' = [cpu EXCEPT ![c].pc = "exit",
                            ![c].seen = <<ee>>,
                            ![c].retT = IF startMM > MAX_COMPRESSED_MINS_AFTER_MIDNIGHT
                                        THEN INVALID_TIME ELSE startTimeOf(startMM)]
     /\ UNCHANGED <<ee, override, wt, last>>

\* setSimpleSchedule() and clearSimpleSchedule(): the update or erase of the slot byte.
IrqWrite(c) ==
  LET x == cpu[c]
      r == IF x.op = "set"
           THEN eeprom_smart_update_byte(ee, x.which,
                  U8(x.arg \div SIMPLE_SCHEDULE_GRANULARITY_MINS))
           ELSE eeprom_smart_erase_byte(ee, x.which)
  IN /\ Running(c) /\ x.pc = "write"
     /\ ee' = r.ee
     /\ cpu' = [cpu EXCEPT ![c].pc = "exit", ![c].retB = (x.op = "set")]
     /\ UNCHANGED <<override, wt, last>>

\* isAnySimpleScheduleSet(): one turn of the loop, the read of slot x.which.
IrqScan(c) ==
  LET x == cpu[c]
      found == eeprom_read_byte(ee, x.which) <= MAX_COMPRESSED_MINS_AFTER_MIDNIGHT
      more == ~found /\ x.which + 1 < MAX_SIMPLE_SCHEDULES
  IN /\ Running(c) /\ x.pc = "scan"
     /\ cpu' = [cpu EXCEPT ![c].seen = Append(x.seen, ee),
                            ![c].retB = found,
                            ![c].which = IF more THEN x.which + 1 ELSE x.which,
                            ![c].pc = IF more THEN "scan" ELSE "exit"]
     /\ UNCHANGED <<ee, override, wt, last>>

\* The ATOMIC_BLOCK is left, by falling out of it or by the return inside the loop.
IrqExit(c) ==
  /\ Running(c) /\ cpu[c].pc = "exit"
  /\ cpu' = [cpu EXCEPT !.I = AtomicRestore(cpu[c].saved), ![c].pc = "ret"]
  /\ UNCHANGED <<ee, override, wt, last>>

\* The routine returns; the handler then ends with RETI, which sets I.
IrqReturn(c) ==
  /\ Running(c) /\ cpu[c].pc = "ret"
  /\ cpu' = [cpu EXCEPT !.I = IF c = "isr" THEN 1 ELSE cpu.I, ![c] = IdleCtx]
  /\ UNCHANGED <<ee, override, wt, last>>

NextIrq ==
  \/ FgCli
  \/ FgSei
  \/ FgCall
  \/ Interrupt
  \/ \E c \in Contexts : IrqEnter(c)
  \/ \E c \in Contexts : IrqRead(c)
  \/ \E c \in Contexts : IrqWrite(c)
  \/ \E c \in Contexts : IrqScan(c)
  \/ \E c \in Contexts : IrqExit(c)
  \/ \E c \in Contexts : IrqReturn(c)

SpecIrq == InitIrq /\ [][NextIrq]_vars

\* C10: every EEPROM read, write and erase of getSimpleScheduleOn(),
\* setSimpleSchedule(), clearSimpleSchedule() and the whole scan of
\* isAnySimpleScheduleSet() happens with interrupts disabled; each returns with the
\* interrupt flag as it was at its entry, whichever way it leaves; and no scan reads
\* slot bytes from two different EEPROM contents, its result being that of one content.
C10_StorageAccessInterruptSafe ==
  \A c \in Contexts :
    LET x == cpu[c]
    IN /\ x.pc \in {"read", "write", "scan"} => cpu.I = 0
       /\ (Running(c) /\ x.pc = "ret") => cpu.I = x.entry
       /\ \A i \in 1 .. Len(x.seen) : x.seen[i] = x.seen[1]
       /\ (x.op = "anySet" /\ x.pc \in {"exit", "ret"} /\ Normal) =>
            (x.retB <=> \E k \in Slots : SlotIsSet(x.seen[1], k))

\* A foreground set, called with interrupts enabled and not yet in its ATOMIC_BLOCK, cut
\* by a handler whose scan has read every slot.
C10_Witness ==
  /\ cpu.fg.op = "set" /\ cpu.fg.pc = "start" /\ cpu.fg.entry = 1
  /\ cpu.isr.op = "anySet" /\ cpu.isr.pc = "exit"
  /\ Len(cpu.isr.seen) = MAX_SIMPLE_SCHEDULES
  /\ cpu.I = 0

====
